---- MODULE Spec2Model ----
(***************************************************************************)
(* Quota accounting, subscription lifecycle, referral bonuses and payment  *)
(* bookkeeping of the bot (database.py, main.py, payment.py, webhook.py).  *)
(*                                                                         *)
(* The database is the state: the tables users, usage_limits, referrals,   *)
(* payments and daily_stats.  Every DatabaseManager method is an operator  *)
(* from a database value (a record of the five tables) and the clock to a  *)
(* new database value and a result; every handler is an action that        *)
(* composes these operators in the order of the handler's code.            *)
(*                                                                         *)
(* Time is counted in ticks.  A tick stands for the resolution of Python's *)
(* datetime.now(); SubSec ticks make one whole second, the resolution of   *)
(* SQLite's CURRENT_TIMESTAMP and datetime(); TicksPerDay ticks make a     *)
(* calendar day.  Day 0 is a Monday.                                       *)
(***************************************************************************)
EXTENDS Integers, Sequences, FiniteSets, TLC

VARIABLES now, users, usage_limits, referrals, payments, daily_stats, uuid_seq,
          awaiting, ret

vars == <<now, users, usage_limits, referrals, payments, daily_stats, uuid_seq,
          awaiting, ret>>

(***************************************************************************)
(* Bounds of the model.                                                    *)
(***************************************************************************)
MaxTime == 8
MaxUses == 3
MaxPayments == 3
MaxDays == 1
MaxQuotaTime == 4
MaxUseTime == 4
MaxPayTime == 2
MaxQuotaUses == 9
MaxRequests == 2
MaxRaceTime == 2
MaxStartTime == 8
MaxStartUses == 1
MaxPeriodTime == 36
MaxPeriodUses == 2
MaxRefundTime == 4
MaxRefundRows == 4
MaxInviteTime == 2
MaxFrameTime == 8
MaxFrameUses == 4
MaxClosedTime == 4
MaxClosedUses == 1

\* user 1 is an ordinary user; user 2 is the administrator, and the one
\* whose referral link user 1 can redeem
Users == {1, 2}
QuotaUsers == {1}
AdminTargets == {1}
Txns == {<<"tg", 1>>}

(***************************************************************************)
(* Clock.                                                                  *)
(***************************************************************************)
SubSec == 2
TicksPerDay == 4
DaysPerWeek == 7

NULL == -1

timedelta_days(n) == n * TicksPerDay
timedelta_hours_24 == TicksPerDay
date(t) == t \div TicksPerDay
weekday(t) == date(t) % DaysPerWeek
timestamp(t) == t \div SubSec
CURRENT_TIMESTAMP(t) == t - (t % SubSec)
sqlite_datetime_plus_1_day(x) == (x - (x % SubSec)) + TicksPerDay

Max(a, b) == IF a > b THEN a ELSE b

(***************************************************************************)
(* config.py                                                               *)
(***************************************************************************)
LimitKeys == {"free_text_requests", "premium_text_requests", "photo_analysis",
              "flux_generation", "midjourney_generation", "voice_processing",
              "document_processing"}

FREE_LIMITS ==
  [k \in LimitKeys |->
     CASE k = "free_text_requests" -> 75
       [] k = "premium_text_requests" -> 0
       [] k = "photo_analysis" -> 7
       [] k = "flux_generation" -> 10
       [] k = "midjourney_generation" -> 3
       [] k = "voice_processing" -> 0
       [] k = "document_processing" -> 0]

PREMIUM_LIMITS ==
  [k \in LimitKeys |->
     CASE k = "free_text_requests" -> 150
       [] k = "premium_text_requests" -> 50
       [] k = "photo_analysis" -> 25
       [] k = "flux_generation" -> 25
       [] k = "midjourney_generation" -> 10
       [] k = "voice_processing" -> 20
       [] k = "document_processing" -> 15]

max_registration_age_hours == timedelta_hours_24
allow_bonus_for_active_users == FALSE
allow_multiple_referral_bonuses == FALSE

SUBSCRIPTION_PRICES ==
  [p \in {"week_trial", "month", "3months"} |->
     CASE p = "week_trial" -> 1 [] p = "month" -> 555 [] p = "3months" -> 1111]

days_map(subscription_type) ==
  CASE subscription_type \in {"week_trial", "week", "trial"} -> 7
    [] subscription_type = "month" -> 30
    [] subscription_type = "3months" -> 90
    [] OTHER -> 30

(***************************************************************************)
(* The database value handed from one DatabaseManager call to the next.    *)
(***************************************************************************)
DB == [users |-> users, usage_limits |-> usage_limits, referrals |-> referrals,
       payments |-> payments, daily_stats |-> daily_stats]

SetDB(db) ==
  /\ users' = db.users
  /\ usage_limits' = db.usage_limits
  /\ referrals' = db.referrals
  /\ payments' = db.payments
  /\ daily_stats' = db.daily_stats

EmptyDB == [users |-> <<>>, usage_limits |-> {}, referrals |-> <<>>,
            payments |-> <<>>, daily_stats |-> <<>>]

\* f with key k bound to v, the key added when it is new
Put(f, k, v) == [x \in (DOMAIN f) \cup {k} |-> IF x = k THEN v ELSE f[x]]

(***************************************************************************)
(* daily_stats: one row per date, created on the first increment.          *)
(***************************************************************************)
StatRow0 == [new_users |-> 0, text_requests |-> 0, image_analysis |-> 0,
             image_generation |-> 0, payments_count |-> 0, revenue_stars |-> 0]

increment_daily_stat(db, t, stat_type, value) ==
  LET today == date(t)
      row == IF today \in DOMAIN db.daily_stats THEN db.daily_stats[today] ELSE StatRow0
  IN [db EXCEPT !.daily_stats = Put(db.daily_stats, today,
                                    [row EXCEPT ![stat_type] = @ + value])]

(***************************************************************************)
(* users                                                                   *)
(***************************************************************************)
generate_referral_code(user_id) == user_id

user_exists(db, user_id) == user_id \in DOMAIN db.users

get_user_by_referral_code(db, referral_code) ==
  IF \E u \in DOMAIN db.users : db.users[u].referral_code = referral_code
  THEN CHOOSE u \in DOMAIN db.users : db.users[u].referral_code = referral_code
  ELSE NULL

\* the UPDATE that gives the inviter a day of premium (create_user and
\* apply_referral_bonus_to_existing_user run the same statement)
inviter_bonus_row(row, t) ==
  LET inviter_premium_expires == t + timedelta_days(1)
  IN [row EXCEPT
        !.subscription_type = IF row.subscription_type = "free" THEN "premium"
                              ELSE row.subscription_type,
        !.subscription_expires =
            IF row.subscription_type = "free" THEN inviter_premium_expires
            ELSE IF row.subscription_expires = NULL
                    \/ row.subscription_expires < inviter_premium_expires
                 THEN inviter_premium_expires
                 ELSE sqlite_datetime_plus_1_day(row.subscription_expires)]

give_inviter_premium(us, invited_by, t) ==
  IF invited_by \in DOMAIN us
  THEN [us EXCEPT ![invited_by] = inviter_bonus_row(us[invited_by], t)]
  ELSE us

\* INSERT OR REPLACE INTO users: the statement that never meets a conflict
users_insert_or_replace(us, user_id) == FALSE

\* INSERT INTO users: user_id is the primary key, a second row for it raises
\* sqlite3.IntegrityError
users_insert_conflict(us, user_id) == user_id \in DOMAIN us

create_user(db, t, user_id, invited_by) ==
  IF users_insert_conflict(db.users, user_id)
  THEN db   \* sqlite3.IntegrityError on the primary key: nothing is committed
  ELSE
    LET row == [subscription_type |-> "free", subscription_expires |-> NULL,
                referral_code |-> generate_referral_code(user_id),
                invited_by |-> invited_by,
                referral_bonus_expires |->
                    IF invited_by # NULL THEN t + timedelta_days(1) ELSE NULL,
                created_at |-> CURRENT_TIMESTAMP(t)]
        us1 == Put(db.users, user_id, row)
        db1 == IF invited_by # NULL
               THEN [db EXCEPT
                       !.users = give_inviter_premium(us1, invited_by, t),
                       !.referrals = Append(@, [inviter_id |-> invited_by,
                                                invited_id |-> user_id,
                                                bonus_given |-> TRUE])]
               ELSE [db EXCEPT !.users = us1]
    IN increment_daily_stat(db1, t, "new_users", 1)

update_user_info(db, t, user_id) ==
  IF ~user_exists(db, user_id) THEN create_user(db, t, user_id, NULL) ELSE db

(***************************************************************************)
(* subscriptions                                                           *)
(***************************************************************************)
\* a payments row; created_as, created_by and completed_by are history fields
\* that record how the row came to be and which call completed it
PaymentRow(user_id, payment_id, amount, subscription_type, charge_id, status, origin) ==
  [user_id |-> user_id, payment_id |-> payment_id, amount |-> amount,
   subscription_type |-> subscription_type,
   telegram_payment_charge_id |-> charge_id, status |-> status,
   created_as |-> status, created_by |-> origin,
   completed_by |-> IF status = "completed" THEN origin ELSE "none"]

NoCharge == <<>>

\* INSERT OR REPLACE INTO payments: the row holding the same unique
\* payment_id is deleted and the new row gets a fresh rowid
insert_or_replace_payment(ps, row) ==
  Append(SelectSeq(ps, LAMBDA p : p.payment_id # row.payment_id), row)

set_subscription(db, t, user_id, subscription_type, days, transaction_id) ==
  LET db0 == IF ~user_exists(db, user_id) THEN create_user(db, t, user_id, NULL) ELSE db
      subscription_expires ==
        IF subscription_type = "premium" /\ days # NULL /\ days # 0
        THEN t + timedelta_days(days) ELSE NULL
      us == [db0.users EXCEPT ![user_id].subscription_type = subscription_type,
                              ![user_id].subscription_expires = subscription_expires]
      ps == IF transaction_id # NoCharge
            THEN insert_or_replace_payment(db0.payments,
                   PaymentRow(user_id, <<"sub", user_id, timestamp(t)>>, 0,
                              subscription_type, transaction_id, "completed",
                              "set_subscription"))
            ELSE db0.payments
  IN [db0 EXCEPT !.users = us, !.payments = ps]

reset_subscription(db, t, user_id) ==
  set_subscription(db, t, user_id, "free", NULL, NoCharge)

(***************************************************************************)
(* limits                                                                  *)
(***************************************************************************)
\* get_period_dates that also starts the 'daily' period on the week's Monday
get_period_dates_weekly_only(t, period_type) ==
  [start |-> date(t) - weekday(t), end |-> date(t) - weekday(t) + 6]

get_period_dates(t, period_type) ==
  IF period_type = "daily"
  THEN [start |-> date(t), end |-> date(t)]
  ELSE [start |-> date(t) - weekday(t), end |-> date(t) - weekday(t) + 6]

\* is_premium decided by subscription_type alone
limits_is_premium_ignoring_expiry(row, t) ==
  row.subscription_type = "premium"

\* the is_premium flag of get_user_limits
limits_is_premium(row, t) ==
  /\ row.subscription_type = "premium"
  /\ row.subscription_expires # NULL
  /\ row.subscription_expires > t

\* the branch of get_user_limits that calls reset_subscription
limits_must_reset(row, t) ==
  /\ row.subscription_type = "premium"
  /\ row.subscription_expires # NULL
  /\ ~(row.subscription_expires > t)

has_referral_bonus(row, t) ==
  /\ row.referral_bonus_expires # NULL
  /\ row.referral_bonus_expires > t

\* select_limits that doubles whatever table was picked while a bonus runs
select_limits_doubling_any(is_premium, has_bonus) ==
  LET limits == IF is_premium THEN PREMIUM_LIMITS ELSE FREE_LIMITS
  IN IF has_bonus THEN [k \in LimitKeys |-> limits[k] * 2] ELSE limits

select_limits(is_premium, has_bonus) ==
  LET limits == IF is_premium THEN PREMIUM_LIMITS ELSE FREE_LIMITS
  IN IF has_bonus /\ ~is_premium
     THEN [k \in LimitKeys |-> limits[k] * 2]
     ELSE limits

get_user_limits(db, t, user_id) ==
  IF ~user_exists(db, user_id)
  THEN [limits |-> FREE_LIMITS, db |-> db]
  ELSE
    LET row == db.users[user_id]
    IN [limits |-> select_limits(limits_is_premium(row, t), has_referral_bonus(row, t)),
        db |-> IF limits_must_reset(row, t) THEN reset_subscription(db, t, user_id)
               ELSE db]

usage_row_matches(r, user_id, limit_type, period_start) ==
  r.user_id = user_id /\ r.limit_type = limit_type /\ r.period_start = period_start

\* cursor.fetchone() on usage_limits: one of the matching rows
get_usage_for_period(db, t, user_id, limit_type, period_type) ==
  LET start_date == get_period_dates(t, period_type).start
      rows == {r \in db.usage_limits : usage_row_matches(r, user_id, limit_type, start_date)}
  IN IF rows = {} THEN 0 ELSE (CHOOSE r \in rows : TRUE).usage_count

\* period_type_for that counts midjourney_generation weekly for every tier
period_type_for_any_tier(limit_type, subscription_type) ==
  IF limit_type \in {"flux_generation", "midjourney_generation"}
  THEN "weekly"
  ELSE "daily"

period_type_for(limit_type, subscription_type) ==
  IF limit_type \in {"flux_generation", "midjourney_generation"}
  THEN IF limit_type = "midjourney_generation"
       THEN IF subscription_type = "premium" THEN "daily" ELSE "weekly"
       ELSE "weekly"
  ELSE "daily"

\* limit_allowed that still admits a request when the counter is at the cap
limit_allowed_at_cap(used, limit) == used <= limit

limit_allowed(used, limit) == used < limit

limit_remaining(used, limit) == Max(0, limit - used)

limit_entry(db, t, user_id, limit_type, limit, period_type) ==
  LET used == get_usage_for_period(db, t, user_id, limit_type, period_type)
  IN [allowed |-> limit_allowed(used, limit), used |-> used, limit |-> limit,
      remaining |-> limit_remaining(used, limit), period_type |-> period_type]

check_limit(db, t, user_id, limit_type) ==
  LET db0 == IF ~user_exists(db, user_id) THEN create_user(db, t, user_id, NULL) ELSE db
      \* the part after user_limits = await self.get_user_limits(user_id)
      with_limits(db1, limits) ==
        LET period_type ==
              period_type_for(limit_type, db1.users[user_id].subscription_type)
            limit == IF limit_type \in DOMAIN limits THEN limits[limit_type] ELSE 0
        IN [res |-> limit_entry(db1, t, user_id, limit_type, limit, period_type),
            db |-> db1]
      with_user_limits(ul) == with_limits(ul.db, ul.limits)
  IN with_user_limits(get_user_limits(db0, t, user_id))

\* a plain INSERT INTO usage_limits on a table without the UNIQUE constraint
insert_usage_without_replace(rows, row) == rows \cup {row}

\* INSERT OR REPLACE INTO usage_limits: rows holding the same unique
\* (user_id, limit_type, period_start) are deleted before the insert
insert_or_replace_usage(rows, row) ==
  {r \in rows : ~usage_row_matches(r, row.user_id, row.limit_type, row.period_start)}
    \cup {row}

stat_for_limit(limit_type) ==
  CASE limit_type \in {"free_text_requests", "premium_text_requests"} -> "text_requests"
    [] limit_type = "photo_analysis" -> "image_analysis"
    [] limit_type \in {"flux_generation", "midjourney_generation"} -> "image_generation"
    [] OTHER -> "none"

\* the new usage_count written as the constant 1, without the COALESCE
\* subquery
coalesce_usage_count_dropped(old) == 1

\* COALESCE((SELECT usage_count FROM usage_limits WHERE ...), 0) + 1, with
\* old the rows the subquery matches
coalesce_usage_count_plus_1(old) ==
  (IF old = {} THEN 0 ELSE (CHOOSE r \in old : TRUE).usage_count) + 1

\* use_limit that takes the period from check_limit and increments whatever
\* the check answered
use_limit_without_recheck(db, t, user_id, limit_type) ==
  LET write(db1, period_type, dates) ==
        LET old == {r \in db1.usage_limits :
                      usage_row_matches(r, user_id, limit_type, dates.start)}
            prev == IF old = {} THEN 0 ELSE (CHOOSE r \in old : TRUE).usage_count
            row == [user_id |-> user_id, limit_type |-> limit_type,
                    period_start |-> dates.start, period_end |-> dates.end,
                    usage_count |-> prev + 1, period_type |-> period_type]
        IN [db1 EXCEPT !.usage_limits = insert_or_replace_usage(@, row)]
      with_limit_check(chk) ==
        [ok |-> TRUE,
         db |-> write(chk.db, chk.res.period_type,
                      get_period_dates(t, chk.res.period_type))]
  IN with_limit_check(check_limit(db, t, user_id, limit_type))

use_limit(db, t, user_id, limit_type) ==
  LET \* the SELECT of the current counter, the INSERT OR REPLACE and the
      \* statistics increment
      write(db1, period_type, dates) ==
        LET old == {r \in db1.usage_limits :
                      usage_row_matches(r, user_id, limit_type, dates.start)}
            row == [user_id |-> user_id, limit_type |-> limit_type,
                    period_start |-> dates.start, period_end |-> dates.end,
                    usage_count |-> coalesce_usage_count_plus_1(old),
                    period_type |-> period_type]
            db2 == [db1 EXCEPT !.usage_limits = insert_or_replace_usage(@, row)]
        IN IF stat_for_limit(limit_type) # "none"
           THEN increment_daily_stat(db2, t, stat_for_limit(limit_type), 1)
           ELSE db2
      \* the part after limit_check = await self.check_limit(user_id, limit_type)
      with_limit_check(chk) ==
        IF ~chk.res.allowed
        THEN [ok |-> FALSE, db |-> chk.db]
        ELSE [ok |-> TRUE,
              db |-> write(chk.db, chk.res.period_type,
                           get_period_dates(t, chk.res.period_type))]
  IN with_limit_check(check_limit(db, t, user_id, limit_type))

\* INSERT OR IGNORE of the activity marker row of the current date
mark_user_as_active(db, t, user_id) ==
  IF \E r \in db.usage_limits :
        usage_row_matches(r, user_id, "bot_activity_marker", date(t))
  THEN db
  ELSE [db EXCEPT !.usage_limits = @ \cup
          {[user_id |-> user_id, limit_type |-> "bot_activity_marker",
            period_start |-> date(t), period_end |-> date(t),
            usage_count |-> 1, period_type |-> "lifetime"]}]

get_user_status(db, t, user_id) ==
  LET \* the part after limits = await self.get_user_limits(user_id); user_data
      \* is the row read before that call
      with_limits(user_data, ul) ==
        [status |->
           [user_id |-> user_id,
            subscription_type |-> user_data.subscription_type,
            subscription_expires |-> user_data.subscription_expires,
            referral_bonus_expires |-> user_data.referral_bonus_expires,
            limits |-> [k \in LimitKeys |->
                          limit_entry(ul.db, t, user_id, k, ul.limits[k],
                                      period_type_for(k, user_data.subscription_type))]],
         db |-> ul.db]
      with_user(db0) ==
        with_limits(db0.users[user_id], get_user_limits(db0, t, user_id))
  IN with_user(IF ~user_exists(db, user_id) THEN create_user(db, t, user_id, NULL)
               ELSE db)

(***************************************************************************)
(* payments                                                                *)
(***************************************************************************)
NoPayment == [found |-> FALSE]

\* cursor.fetchone() on payments: the position of the first row among the
\* matching positions S, 0 when no row matches
fetchone(S) ==
  IF S = {} THEN 0 ELSE CHOOSE i \in S : \A j \in S : i <= j

\* create_payment that inserts its row with status 'completed'
create_payment_completed(db, user_id, payment_id, amount, subscription_type, charge_id) ==
  [ok |-> TRUE,
   db |-> [db EXCEPT !.payments =
             Append(@, PaymentRow(user_id, payment_id, amount, subscription_type,
                                  charge_id, "completed", "create_payment"))]]

create_payment(db, user_id, payment_id, amount, subscription_type, charge_id) ==
  IF \E i \in 1..Len(db.payments) : db.payments[i].payment_id = payment_id
  THEN [ok |-> FALSE, db |-> db]   \* sqlite3.IntegrityError on payment_id
  ELSE [ok |-> TRUE,
        db |-> [db EXCEPT !.payments =
                  Append(@, PaymentRow(user_id, payment_id, amount, subscription_type,
                                       charge_id, "pending", "create_payment"))]]

\* confirm_match without the status = 'pending' condition of the SELECT
confirm_match_any_status(p, payment_id, charge_id) ==
  IF payment_id # NoCharge
  THEN p.payment_id = payment_id
  ELSE p.telegram_payment_charge_id = charge_id

confirm_match(p, payment_id, charge_id) ==
  IF payment_id # NoCharge
  THEN p.payment_id = payment_id /\ p.status = "pending"
  ELSE p.telegram_payment_charge_id = charge_id /\ p.status = "pending"

confirm_payment(db, t, payment_id, charge_id) ==
  LET i == fetchone({j \in 1..Len(db.payments) :
                        confirm_match(db.payments[j], payment_id, charge_id)})
      payment == db.payments[i]
      db1 == [db EXCEPT !.payments[i].status = "completed",
                        !.payments[i].completed_by = "confirm_payment"]
      db2 == increment_daily_stat(db1, t, "payments_count", 1)
      db3 == increment_daily_stat(db2, t, "revenue_stars", payment.amount)
  IN IF payment_id = NoCharge /\ charge_id = NoCharge
     THEN [payment |-> NoPayment, db |-> db]
     ELSE IF i = 0
     THEN [payment |-> NoPayment, db |-> db]
     ELSE [payment |-> [found |-> TRUE, row |-> payment], db |-> db3]

\* WHERE telegram_payment_charge_id = ? OR payment_id = ? AND status = 'completed'
\* (AND binds tighter than OR)
cancel_select(p, transaction_id) ==
  \/ p.telegram_payment_charge_id = transaction_id
  \/ (p.payment_id = transaction_id /\ p.status = "completed")

transaction_match(p, transaction_id) ==
  \/ p.telegram_payment_charge_id = transaction_id
  \/ p.payment_id = transaction_id

cancel_subscription(db, transaction_id) ==
  LET i == fetchone({j \in 1..Len(db.payments) :
                        cancel_select(db.payments[j], transaction_id)})
      user_id == db.payments[i].user_id
      ps == [j \in 1..Len(db.payments) |->
               IF transaction_match(db.payments[j], transaction_id)
               THEN [db.payments[j] EXCEPT !.status = "cancelled"]
               ELSE db.payments[j]]
      us == IF user_id \in DOMAIN db.users
            THEN [db.users EXCEPT ![user_id].subscription_type = "free",
                                  ![user_id].subscription_expires = NULL]
            ELSE db.users
  IN IF i = 0
     THEN [raised |-> TRUE, db |-> db]
     ELSE [raised |-> FALSE, db |-> [db EXCEPT !.payments = ps, !.users = us]]

mark_payment_refunded(db, transaction_id) ==
  [db EXCEPT !.payments =
     [j \in 1..Len(db.payments) |->
        IF transaction_match(db.payments[j], transaction_id)
        THEN [db.payments[j] EXCEPT !.status = "refunded"]
        ELSE db.payments[j]]]

get_transaction_info(db, transaction_id) ==
  LET i == fetchone({j \in 1..Len(db.payments) :
                        transaction_match(db.payments[j], transaction_id)})
  IN IF i = 0 THEN NoPayment ELSE [found |-> TRUE, row |-> db.payments[i]]

(***************************************************************************)
(* referrals                                                               *)
(***************************************************************************)
check_referral_bonus_used(db, user_id) ==
  \E i \in 1..Len(db.referrals) : db.referrals[i].invited_id = user_id

\* a positive COUNT over the user's usage rows other than the activity marker;
\* the later MAX(updated_at) query only runs when that count is 0, where
\* it finds no row and the method returns False
check_user_activity_before_referral(db, user_id) ==
  \E r \in db.usage_limits : r.user_id = user_id /\ r.limit_type # "bot_activity_marker"

\* is_eligible_for_referral_bonus without the check_referral_bonus_used test
is_eligible_without_used_check(db, t, user_id) ==
  IF ~allow_bonus_for_active_users /\ check_user_activity_before_referral(db, user_id)
  THEN "too_active"
  ELSE IF user_id \in DOMAIN db.users
          /\ t - db.users[user_id].created_at > max_registration_age_hours
  THEN "too_old"
  ELSE "eligible"

\* is_eligible_for_referral_bonus that tests the registration date first
is_eligible_age_first(db, t, user_id) ==
  IF user_id \in DOMAIN db.users
     /\ t - db.users[user_id].created_at > max_registration_age_hours
  THEN "too_old"
  ELSE IF ~allow_multiple_referral_bonuses /\ check_referral_bonus_used(db, user_id)
  THEN "already_used"
  ELSE IF ~allow_bonus_for_active_users /\ check_user_activity_before_referral(db, user_id)
  THEN "too_active"
  ELSE "eligible"

is_eligible_for_referral_bonus(db, t, user_id) ==
  IF ~allow_multiple_referral_bonuses /\ check_referral_bonus_used(db, user_id)
  THEN "already_used"
  ELSE IF ~allow_bonus_for_active_users /\ check_user_activity_before_referral(db, user_id)
  THEN "too_active"
  ELSE IF user_id \in DOMAIN db.users
          /\ t - db.users[user_id].created_at > max_registration_age_hours
  THEN "too_old"
  ELSE "eligible"

apply_referral_bonus_to_existing_user(db, t, user_id, invited_by) ==
  LET us1 == IF user_id \in DOMAIN db.users
             THEN [db.users EXCEPT ![user_id].referral_bonus_expires = t + timedelta_days(1)]
             ELSE db.users
  IN [db EXCEPT
        !.referrals = Append(@, [inviter_id |-> invited_by, invited_id |-> user_id,
                                 bonus_given |-> TRUE]),
        !.users = give_inviter_premium(us1, invited_by, t)]

(***************************************************************************)
(* main.py: middlewares                                                    *)
(***************************************************************************)
ADMIN_IDS == {2}

NoCode == 0
Codes == {0, 1, 2, 3}
Plans == {"week_trial"}
RefundOutcomes == {"true", "false", "raise"}

\* SubscriptionCheckMiddleware.__call__: TRUE when the handler is reached
subscription_gate(always_allowed, member) == always_allowed \/ member

\* UserUpdateMiddleware.__call__: update_user_info, its exception swallowed
user_update_middleware(db, t, user_id, mw_ok) ==
  IF mw_ok THEN update_user_info(db, t, user_id) ELSE db

(***************************************************************************)
(* main.py: /start                                                         *)
(***************************************************************************)
\* the test of start_cmd without its invited_by != user_id part
start_has_inviter_any(invited_by, user_id) == invited_by # NULL

\* if invited_by and invited_by != user_id
start_has_inviter(invited_by, user_id) == invited_by # NULL /\ invited_by # user_id

start_cmd(db, t, user_id, code, member) ==
  LET exists0 == user_exists(db, user_id)
      invited_by == IF code = NoCode THEN NULL ELSE get_user_by_referral_code(db, code)
      has_inviter == start_has_inviter(invited_by, user_id)
      reason == IF has_inviter THEN is_eligible_for_referral_bonus(db, t, user_id)
                ELSE "none"
      outcome == IF code = NoCode THEN "no_code"
                 ELSE IF has_inviter
                 THEN IF reason = "eligible" THEN "bonus_activated" ELSE reason
                 ELSE IF invited_by = user_id THEN "own_link" ELSE "invalid_link"
      db1 == IF has_inviter /\ reason = "eligible"
             THEN IF ~exists0 THEN create_user(db, t, user_id, invited_by)
                  ELSE apply_referral_bonus_to_existing_user(db, t, user_id, invited_by)
             ELSE db
      db2 == IF ~exists0 /\ invited_by = NULL THEN create_user(db1, t, user_id, NULL)
             ELSE db1
      db3 == IF exists0 THEN update_user_info(db2, t, user_id) ELSE db2
      db4 == mark_user_as_active(db3, t, user_id)
      st == get_user_status(db4, t, user_id)
  IN [outcome |-> outcome, invited_by |-> invited_by,
      db |-> IF member THEN st.db ELSE db4]

(***************************************************************************)
(* main.py: payments and refunds                                           *)
(***************************************************************************)
\* attempt_refund that tells the administrators only of a refund that
\* returned False
attempt_refund_silent_on_raise(db, transaction_id, refund_outcome) ==
  [db |-> IF refund_outcome = "true" THEN mark_payment_refunded(db, transaction_id)
          ELSE db,
   admins_notified |-> IF refund_outcome = "false" THEN ADMIN_IDS ELSE {}]

\* the outcomes of bot.refund_star_payment: it returns True, returns False
\* or raises; admins_notified are the administrators bot.send_message is
\* called for
attempt_refund(db, transaction_id, refund_outcome) ==
  [db |-> IF refund_outcome = "true" THEN mark_payment_refunded(db, transaction_id)
          ELSE db,
   admins_notified |-> IF refund_outcome = "true" THEN {} ELSE ADMIN_IDS]

\* what can go wrong while a successful_payment is handled: a payload that
\* does not parse, an exception inside create_payment or confirm_payment
\* (they answer False and None), an exception out of set_subscription, an
\* exception out of the closing message.answer
PaymentFaults == {"none", "payload", "save", "confirm", "activate", "answer"}

handle_successful_payment(db, t, user_id, subscription_type, transaction_id, fault, refund_outcome) ==
  LET days == days_map(subscription_type)
      \* await attempt_refund(user_id, transaction_id, reason)
      with_refund(s, r) ==
        [s EXCEPT !.db = r.db, !.refund_calls = @ + 1,
                  !.admins_notified = @ \cup r.admins_notified]
      refunded(s) == with_refund(s, attempt_refund(s.db, transaction_id, refund_outcome))
      at(exit, db1, activated) ==
        [exit |-> exit, db |-> db1, activated |-> activated,
         refund_attempted |-> FALSE, refund_calls |-> 0, admins_notified |-> {}]
      \* attempt_refund; refund_attempted = True; return
      give_back(db1) ==
        [refunded(at("return", db1, FALSE)) EXCEPT !.refund_attempted = TRUE]
      activate(db1) ==
        IF fault = "activate" THEN give_back(db1)
        ELSE IF fault = "answer"
        THEN at("Exception", set_subscription(db1, t, user_id, "premium", days,
                                              transaction_id), TRUE)
        ELSE at("end", set_subscription(db1, t, user_id, "premium", days,
                                        transaction_id), TRUE)
      confirm(confirmed) ==
        IF ~confirmed.payment.found THEN give_back(confirmed.db)
        ELSE activate(confirmed.db)
      save(saved) ==
        IF ~saved.ok THEN give_back(saved.db)
        ELSE confirm(IF fault = "confirm"
                     THEN [payment |-> NoPayment, db |-> saved.db]
                     ELSE confirm_payment(saved.db, t, NoCharge, transaction_id))
      \* the try block
      body ==
        IF fault = "payload" THEN at("ValueError", db, FALSE)
        ELSE save(IF fault = "save"
                  THEN [ok |-> FALSE, db |-> db]
                  ELSE create_payment(db, user_id, <<"pay", user_id, timestamp(t)>>,
                                      SUBSCRIPTION_PRICES[subscription_type],
                                      subscription_type, transaction_id))
      \* except ValueError / except Exception: if not refund_attempted
      handlers(s) ==
        IF s.exit \in {"ValueError", "Exception"} /\ ~s.refund_attempted
        THEN refunded(s)
        ELSE s
  IN handlers(body)

process_refund(db, transaction_id, from_db, refund_outcome) ==
  LET cancelled == cancel_subscription(db, transaction_id)
  IN IF refund_outcome = "raise"
     THEN [success |-> FALSE, db |-> db, cancel_called |-> FALSE]
     ELSE [success |-> (refund_outcome = "true"),
           db |-> IF from_db THEN cancelled.db ELSE db,
           cancel_called |-> from_db]

handle_confirm_cancel_db(db, transaction_id, refund_outcome) ==
  LET transaction_info == get_transaction_info(db, transaction_id)
      refund == process_refund(db, transaction_id, TRUE, refund_outcome)
  IN IF ~transaction_info.found
     THEN [found |-> FALSE, user_id |-> NULL, db |-> db]
     ELSE [found |-> TRUE, user_id |-> transaction_info.row.user_id, db |-> refund.db]

handle_confirm_cancel_force(db, t, transaction_id, user_id, refund_outcome) ==
  process_refund(get_user_status(db, t, user_id).db, transaction_id, FALSE,
                 refund_outcome).db

\* get_user_by_identifier with a numeric identifier
get_user_by_identifier(db, t, identifier) ==
  IF user_exists(db, identifier)
  THEN [user_id |-> identifier, db |-> get_user_status(db, t, identifier).db]
  ELSE [user_id |-> NULL, db |-> db]

admin_premium_cmd(db, t, identifier, days) ==
  LET found == get_user_by_identifier(db, t, identifier)
  IN IF found.user_id = NULL THEN db
     ELSE set_subscription(found.db, t, found.user_id, "premium", days, NoCharge)

admin_reset_cmd(db, t, identifier) ==
  LET found == get_user_by_identifier(db, t, identifier)
  IN IF found.user_id = NULL THEN db
     ELSE reset_subscription(found.db, t, found.user_id)

(***************************************************************************)
(* payment.py and webhook.py (YooKassa)                                    *)
(***************************************************************************)
yookassa_create_payment(db, user_id, subscription_type, uuid) ==
  create_payment(db, user_id, <<"uuid", uuid>>, SUBSCRIPTION_PRICES[subscription_type],
                 subscription_type, NoCharge)

handle_payment_notification(db, t, bot_payment_id, status) ==
  LET confirmed == confirm_payment(db, t, bot_payment_id, NoCharge)
  IN IF status = "succeeded"
     THEN [result |-> confirmed.payment.found, payment |-> confirmed.payment,
           db |-> confirmed.db]
     ELSE [result |-> TRUE, payment |-> NoPayment, db |-> db]

(***************************************************************************)
(* State machine.  An update passes SubscriptionCheckMiddleware, then      *)
(* UserUpdateMiddleware, then the handler; ret records the last operation  *)
(* and what it returned.                                                   *)
(* A handler that has reached an await on the network is held in awaiting  *)
(* until the event loop resumes it; handlers of other updates run between. *)
(***************************************************************************)
Init ==
  /\ now = 0
  /\ users = EmptyDB.users
  /\ usage_limits = EmptyDB.usage_limits
  /\ referrals = EmptyDB.referrals
  /\ payments = EmptyDB.payments
  /\ daily_stats = EmptyDB.daily_stats
  /\ uuid_seq = 0
  /\ awaiting = {}
  /\ ret = [op |-> "init"]

Blocked(user_id) ==
  /\ UNCHANGED <<now, users, usage_limits, referrals, payments, daily_stats, uuid_seq,
               awaiting>>
  /\ ret' = [op |-> "blocked", user |-> user_id]

RECURSIVE sum_usage_count(_)
sum_usage_count(S) ==
  IF S = {} THEN 0
  ELSE LET r == CHOOSE x \in S : TRUE IN r.usage_count + sum_usage_count(S \ {r})

total_uses(rows) ==
  sum_usage_count({r \in rows : r.limit_type # "bot_activity_marker"})

TickTo(limit, steps) ==
  /\ now < limit
  /\ \E d \in steps :
        /\ now + d <= limit
        /\ now' = now + d
  /\ UNCHANGED <<users, usage_limits, referrals, payments, daily_stats, uuid_seq,
               awaiting>>
  /\ ret' = [op |-> "tick"]

CheckLimitOf(user_id, limit_type, member) ==
  IF ~subscription_gate(FALSE, member) THEN Blocked(user_id)
  ELSE \E r \in {check_limit(user_update_middleware(DB, now, user_id, TRUE), now,
                                user_id, limit_type)} :
          /\ SetDB(r.db)
          /\ ret' = [op |-> "check_limit", user |-> user_id,
                     limit_type |-> limit_type, res |-> r.res]
          /\ UNCHANGED <<now, uuid_seq, awaiting>>

UseLimitOf(user_id, limit_type, member, bound) ==
  IF ~subscription_gate(FALSE, member) THEN Blocked(user_id)
  ELSE \E r \in {use_limit(user_update_middleware(DB, now, user_id, TRUE), now,
                              user_id, limit_type)} :
          /\ total_uses(usage_limits) < bound
          /\ SetDB(r.db)
          /\ ret' = [op |-> "use_limit", user |-> user_id,
                     limit_type |-> limit_type, ok |-> r.ok]
          /\ UNCHANGED <<now, uuid_seq, awaiting>>

(***************************************************************************)
(* Spec: subscription lifecycle, status reads and referral links.          *)
(***************************************************************************)
Tick == TickTo(MaxTime, {TicksPerDay})

StartCmd ==
  \E user_id \in Users, code \in Codes, member \in BOOLEAN, mw_ok \in BOOLEAN :
    LET r == start_cmd(user_update_middleware(DB, now, user_id, mw_ok), now,
                       user_id, code, member)
    IN /\ SetDB(r.db)
       /\ ret' = [op |-> "start", user |-> user_id, code |-> code,
                  outcome |-> r.outcome]
       /\ UNCHANGED <<now, uuid_seq, awaiting>>

GetUserStatus ==
  \E user_id \in QuotaUsers, member \in BOOLEAN :
    IF ~subscription_gate(FALSE, member) THEN Blocked(user_id)
    ELSE \E r \in {get_user_status(user_update_middleware(DB, now, user_id, TRUE),
                                      now, user_id)} :
            /\ SetDB(r.db)
            /\ ret' = [op |-> "get_user_status", user |-> user_id, status |-> r.status]
            /\ UNCHANGED <<now, uuid_seq, awaiting>>

AdminPremium ==
  \E admin \in ADMIN_IDS, identifier \in AdminTargets, days \in 0..MaxDays,
     member \in BOOLEAN :
    IF ~subscription_gate(FALSE, member) THEN Blocked(admin)
    ELSE /\ SetDB(admin_premium_cmd(user_update_middleware(DB, now, admin, TRUE), now,
                                    identifier, days))
         /\ ret' = [op |-> "admin_premium", user |-> identifier, days |-> days]
         /\ UNCHANGED <<now, uuid_seq, awaiting>>

AdminReset ==
  \E admin \in ADMIN_IDS, identifier \in AdminTargets, member \in BOOLEAN :
    IF ~subscription_gate(FALSE, member) THEN Blocked(admin)
    ELSE /\ SetDB(admin_reset_cmd(user_update_middleware(DB, now, admin, TRUE), now,
                                  identifier))
         /\ ret' = [op |-> "admin_reset", user |-> identifier]
         /\ UNCHANGED <<now, uuid_seq, awaiting>>

Next ==
  \/ Tick
  \/ StartCmd
  \/ GetUserStatus
  \/ AdminPremium
  \/ AdminReset

Spec == Init /\ [][Next]_vars

(***************************************************************************)
(* SpecUse: the quota calls of the message handlers over every limit type. *)
(***************************************************************************)
ApiLimitTypes == {"photo_analysis", "midjourney_generation",
                  "premium_text_requests", "unknown_limit"}

UseTick == TickTo(MaxUseTime, {TicksPerDay})

CheckLimit ==
  \E user_id \in QuotaUsers, limit_type \in ApiLimitTypes, member \in BOOLEAN :
    CheckLimitOf(user_id, limit_type, member)

UseLimit ==
  \E user_id \in QuotaUsers, limit_type \in ApiLimitTypes, member \in BOOLEAN :
    UseLimitOf(user_id, limit_type, member, MaxUses)

\* handle_text up to its first await after mark_user_as_active
MarkUserAsActive ==
  \E user_id \in QuotaUsers, member \in BOOLEAN :
    IF ~subscription_gate(FALSE, member) THEN Blocked(user_id)
    ELSE /\ SetDB(mark_user_as_active(user_update_middleware(DB, now, user_id, TRUE),
                                      now, user_id))
         /\ ret' = [op |-> "mark_user_as_active", user |-> user_id]
         /\ UNCHANGED <<now, uuid_seq, awaiting>>

NextUse ==
  \/ UseTick
  \/ CheckLimit
  \/ UseLimit
  \/ MarkUserAsActive
  \/ AdminPremium
  \/ AdminReset

SpecUse == Init /\ [][NextUse]_vars

(***************************************************************************)
(* SpecQuota: one daily quota driven to its cap.                           *)
(***************************************************************************)
QuotaLimitTypes == {"photo_analysis"}

QuotaTick == TickTo(MaxQuotaTime, {TicksPerDay})

QuotaCheck ==
  \E user_id \in QuotaUsers, limit_type \in QuotaLimitTypes :
    CheckLimitOf(user_id, limit_type, TRUE)

QuotaUse ==
  \E user_id \in QuotaUsers, limit_type \in QuotaLimitTypes :
    UseLimitOf(user_id, limit_type, TRUE, MaxQuotaUses)

NextQuota ==
  \/ QuotaTick
  \/ QuotaCheck
  \/ QuotaUse
  \/ AdminPremium
  \/ AdminReset

SpecQuota == Init /\ [][NextQuota]_vars

(***************************************************************************)
(* SpecPay: Telegram Stars payments, YooKassa payments and the webhook,    *)
(* and the administrator's cancellations.  The clock advances by seconds.  *)
(***************************************************************************)
PayUsers == {1}

payment_ids(ps) == {ps[i].payment_id : i \in 1..Len(ps)}

\* what an administrator or a webhook can name: a Telegram charge id, a
\* payment_id of the table, or an id the table does not hold
TransactionInputs == Txns \cup payment_ids(payments) \cup {<<"uuid", 0>>}

PayTick == TickTo(MaxPayTime, {SubSec})

\* the faults SpecPay lets happen
PayFaults == {"none", "payload", "activate"}

SuccessfulPayment ==
  \E user_id \in PayUsers, transaction_id \in Txns, subscription_type \in Plans,
     fault \in PayFaults, refund_outcome \in RefundOutcomes, member \in BOOLEAN :
    IF ~subscription_gate(FALSE, member) THEN Blocked(user_id)
    ELSE \E r \in {handle_successful_payment(
                      user_update_middleware(DB, now, user_id, TRUE), now, user_id,
                      subscription_type, transaction_id, fault, refund_outcome)} :
            /\ Len(payments) + 2 <= MaxPayments
            /\ SetDB(r.db)
            /\ ret' = [op |-> "successful_payment", user |-> user_id,
                       activated |-> r.activated, refund_calls |-> r.refund_calls,
                       admins_notified |-> r.admins_notified]
            /\ UNCHANGED <<now, uuid_seq, awaiting>>

YooKassaCreatePayment ==
  \E user_id \in PayUsers, subscription_type \in Plans :
    LET r == yookassa_create_payment(DB, user_id, subscription_type, uuid_seq + 1)
    IN /\ Len(payments) < MaxPayments
       /\ SetDB(r.db)
       /\ uuid_seq' = uuid_seq + 1
       /\ ret' = [op |-> "yookassa_create_payment", user |-> user_id, ok |-> r.ok]
       /\ UNCHANGED <<now, awaiting>>

YooKassaWebhook ==
  \E bot_payment_id \in TransactionInputs, status \in {"succeeded", "canceled"} :
    LET r == handle_payment_notification(DB, now, bot_payment_id, status)
    IN /\ SetDB(r.db)
       /\ ret' = [op |-> "yookassa_webhook", payment_id |-> bot_payment_id,
                  status |-> status, result |-> r.result]
       /\ UNCHANGED <<now, uuid_seq, awaiting>>

ConfirmCancelDb ==
  \E admin \in ADMIN_IDS, transaction_id \in TransactionInputs,
     refund_outcome \in RefundOutcomes, member \in BOOLEAN :
    IF ~subscription_gate(FALSE, member) THEN Blocked(admin)
    ELSE LET r == handle_confirm_cancel_db(
                    user_update_middleware(DB, now, admin, TRUE), transaction_id,
                    refund_outcome)
         IN /\ SetDB(r.db)
            /\ ret' = [op |-> "confirm_cancel_db", found |-> r.found,
                       user |-> r.user_id, refund_outcome |-> refund_outcome]
            /\ UNCHANGED <<now, uuid_seq, awaiting>>

ConfirmCancelForce ==
  \E admin \in ADMIN_IDS, transaction_id \in TransactionInputs, user_id \in PayUsers,
     refund_outcome \in RefundOutcomes, member \in BOOLEAN :
    IF ~subscription_gate(FALSE, member) THEN Blocked(admin)
    ELSE /\ SetDB(handle_confirm_cancel_force(
                    user_update_middleware(DB, now, admin, TRUE), now, transaction_id,
                    user_id, refund_outcome))
         /\ ret' = [op |-> "confirm_cancel_force", user |-> user_id]
         /\ UNCHANGED <<now, uuid_seq, awaiting>>

NextPay ==
  \/ PayTick
  \/ SuccessfulPayment
  \/ YooKassaCreatePayment
  \/ YooKassaWebhook
  \/ ConfirmCancelDb
  \/ ConfirmCancelForce
  \/ AdminPremium

SpecPay == Init /\ [][NextPay]_vars

(***************************************************************************)
(* SpecTier: the DatabaseManager calls themselves, with set_subscription   *)
(* given each tier name.                                                   *)
(***************************************************************************)
TierTypes == {"free", "premium", "vip"}

TierLimitTypes == {"premium_text_requests", "photo_analysis"}

SetSubscription ==
  \E user_id \in QuotaUsers, subscription_type \in TierTypes, days \in 0..MaxDays :
    /\ SetDB(set_subscription(DB, now, user_id, subscription_type,
                              IF days = 0 THEN NULL ELSE days, NoCharge))
    /\ ret' = [op |-> "set_subscription", user |-> user_id,
               subscription_type |-> subscription_type]
    /\ UNCHANGED <<now, uuid_seq, awaiting>>

TierCheck ==
  \E user_id \in QuotaUsers, limit_type \in TierLimitTypes :
    CheckLimitOf(user_id, limit_type, TRUE)

TierUse ==
  \E user_id \in QuotaUsers, limit_type \in TierLimitTypes :
    UseLimitOf(user_id, limit_type, TRUE, MaxUses)

NextTier ==
  \/ QuotaTick
  \/ SetSubscription
  \/ TierCheck
  \/ TierUse

SpecTier == Init /\ [][NextTier]_vars

(***************************************************************************)
(* SpecRace: text messages handled as concurrent tasks of the one event    *)
(* loop.  DatabaseManager uses synchronous sqlite3 calls, so a handler     *)
(* runs without interruption from one await on the network to the next:    *)
(* handle_text is suspended between its check_limit and its use_limit      *)
(* (message.answer, process_message_with_ai), and nowhere inside either.   *)
(***************************************************************************)
Requests == 1..MaxRequests

\* the limit type of the default model (get_limit_type_for_model)
TextLimitTypes == {"free_text_requests"}

\* handle_text from its first line to the await that follows check_limit
handle_text_check(db, t, user_id, limit_type) ==
  check_limit(mark_user_as_active(db, t, user_id), t, user_id, limit_type)

\* handle_text after process_message_with_ai has returned or raised
handle_text_use(db, t, user_id, limit_type, ai_ok) ==
  IF ai_ok THEN use_limit(db, t, user_id, limit_type) ELSE [ok |-> FALSE, db |-> db]

RaceTick == TickTo(MaxRaceTime, {1})

\* limit and last_slot are history fields: the cap check_limit answered and
\* whether it answered used = cap - 1
TextCheck ==
  \E id \in Requests, user_id \in QuotaUsers, limit_type \in TextLimitTypes :
    /\ \A h \in awaiting : h.id # id
    /\ \E r \in {handle_text_check(user_update_middleware(DB, now, user_id, TRUE),
                                   now, user_id, limit_type)} :
          /\ SetDB(r.db)
          /\ awaiting' = IF r.res.allowed
                         THEN awaiting \cup {[id |-> id, user_id |-> user_id,
                                              limit_type |-> limit_type,
                                              limit |-> r.res.limit,
                                              last_slot |->
                                                (r.res.used = r.res.limit - 1)]}
                         ELSE awaiting
          /\ ret' = [op |-> "text_check", user |-> user_id,
                     limit_type |-> limit_type, res |-> r.res]
          /\ UNCHANGED <<now, uuid_seq>>

TextUse ==
  \E h \in awaiting, ai_ok \in BOOLEAN :
    \E r \in {handle_text_use(DB, now, h.user_id, h.limit_type, ai_ok)} :
      /\ SetDB(r.db)
      /\ awaiting' = awaiting \ {h}
      /\ ret' = [op |-> "text_use", user |-> h.user_id, limit_type |-> h.limit_type,
                 limit |-> h.limit, last_slot |-> h.last_slot,
                 ai_ok |-> ai_ok, ok |-> r.ok]
      /\ UNCHANGED <<now, uuid_seq>>

NextRace ==
  \/ RaceTick
  \/ TextCheck
  \/ TextUse
  \/ AdminPremium
  \/ AdminReset

SpecRace == Init /\ [][NextRace]_vars

(***************************************************************************)
(* SpecStart: /start with referral links among users who also spend quota. *)
(***************************************************************************)
StartLimitTypes == {"photo_analysis"}

StartTick == TickTo(MaxStartTime, {TicksPerDay})

\* the use_limit call of a media handler (handle_photo)
StartUse ==
  \E user_id \in Users, limit_type \in StartLimitTypes :
    UseLimitOf(user_id, limit_type, TRUE, MaxStartUses)

NextStart ==
  \/ StartTick
  \/ StartCmd
  \/ StartUse

SpecStart == Init /\ [][NextStart]_vars

(***************************************************************************)
(* SpecPeriod: the image limit types over more than one week.              *)
(***************************************************************************)
PeriodLimitTypes == {"flux_generation", "midjourney_generation", "photo_analysis"}

\* the clock moves three days at a time: Monday, Thursday, Sunday, Wednesday
PeriodTick == TickTo(MaxPeriodTime, {3 * TicksPerDay})

PeriodCheck ==
  \E user_id \in QuotaUsers, limit_type \in PeriodLimitTypes :
    CheckLimitOf(user_id, limit_type, TRUE)

PeriodUse ==
  \E user_id \in QuotaUsers, limit_type \in PeriodLimitTypes :
    UseLimitOf(user_id, limit_type, TRUE, MaxPeriodUses)

NextPeriod ==
  \/ PeriodTick
  \/ PeriodCheck
  \/ PeriodUse
  \/ AdminPremium
  \/ AdminReset

SpecPeriod == Init /\ [][NextPeriod]_vars

(***************************************************************************)
(* SpecRefund: successful_payment events with every fault of the handler.  *)
(***************************************************************************)
RefundTick == TickTo(MaxRefundTime, {SubSec})

SuccessfulPaymentFaulty ==
  \E user_id \in PayUsers, transaction_id \in Txns, subscription_type \in Plans,
     fault \in PaymentFaults, refund_outcome \in RefundOutcomes :
    \E r \in {handle_successful_payment(
                 user_update_middleware(DB, now, user_id, TRUE), now, user_id,
                 subscription_type, transaction_id, fault, refund_outcome)} :
       /\ Len(payments) + 2 <= MaxRefundRows
       /\ SetDB(r.db)
       /\ ret' = [op |-> "successful_payment", user |-> user_id, fault |-> fault,
                  refund_outcome |-> refund_outcome,
                  activated |-> r.activated, refund_calls |-> r.refund_calls,
                  admins_notified |-> r.admins_notified]
       /\ UNCHANGED <<now, uuid_seq, awaiting>>

NextRefund ==
  \/ RefundTick
  \/ SuccessfulPaymentFaulty

SpecRefund == Init /\ [][NextRefund]_vars

(***************************************************************************)
(* SpecInvite: referral links redeemed while the inviter's premium runs,   *)
(* with the clock moving in half seconds.                                  *)
(***************************************************************************)
InviteTick == TickTo(MaxInviteTime, {1})

NextInvite ==
  \/ InviteTick
  \/ StartCmd
  \/ AdminPremium

SpecInvite == Init /\ [][NextInvite]_vars

(***************************************************************************)
(* SpecFrame: use_limit of two users over daily, weekly and closed limit   *)
(* types.                                                                  *)
(***************************************************************************)
FrameLimitTypes == {"photo_analysis", "midjourney_generation", "premium_text_requests"}

FrameTick == TickTo(MaxFrameTime, {TicksPerDay})

FrameUse ==
  \E user_id \in Users, limit_type \in FrameLimitTypes :
    UseLimitOf(user_id, limit_type, TRUE, MaxFrameUses)

NextFrame ==
  \/ FrameTick
  \/ FrameUse
  \/ AdminPremium
  \/ AdminReset

SpecFrame == Init /\ [][NextFrame]_vars

(***************************************************************************)
(* SpecClosed: the limit types that are closed to free users, with         *)
(* referral links and premium grants.                                      *)
(***************************************************************************)
ClosedLimitTypes == {"premium_text_requests", "voice_processing",
                     "document_processing"}

ClosedTick == TickTo(MaxClosedTime, {TicksPerDay})

ClosedUse ==
  \E user_id \in Users, limit_type \in ClosedLimitTypes :
    UseLimitOf(user_id, limit_type, TRUE, MaxClosedUses)

NextClosed ==
  \/ ClosedTick
  \/ StartCmd
  \/ ClosedUse
  \/ AdminPremium

SpecClosed == Init /\ [][NextClosed]_vars

(***************************************************************************)
(* SpecGate: updates of members and non-members passed through             *)
(* SubscriptionCheckMiddleware, UserUpdateMiddleware and the handlers.     *)
(***************************************************************************)
ALLOWED_COMMANDS == {"/start", "/referral"}
ALLOWED_CALLBACKS == {"check_subscription"}

\* status is what bot.get_chat_member answers; "error" stands for the call
\* raising, which is caught and answered False
check_user_subscription(status) == status \in {"member", "administrator", "creator"}

\* an update is <<kind, word>>: the first word of a message text (or the
\* content type of a message without text), or the data of a callback query
\* the test for the allowed words that does not look at the kind of update
is_allowed_update_any_kind(event) ==
  event[2] \in ALLOWED_COMMANDS \cup ALLOWED_CALLBACKS

is_allowed_update(event) ==
  \/ event[1] = "message" /\ event[2] \in ALLOWED_COMMANDS
  \/ event[1] = "callback_query" /\ event[2] \in ALLOWED_CALLBACKS

GateEvents ==
  {<<"message", "/start">>, <<"message", "/referral">>, <<"message", "photo">>,
   <<"message", "successful_payment">>, <<"message", "/admin_premium">>,
   <<"message", "check_subscription">>,
   <<"callback_query", "check_subscription">>, <<"callback_query", "/start">>}

\* dp.feed_update: the two middlewares in the order of their registration,
\* then the handler the update is routed to
feed_update(db, t, user_id, event, status) ==
  LET member == check_user_subscription(status)
      photo(chk) ==
        IF ~chk.res.allowed THEN chk.db
        ELSE use_limit(chk.db, t, user_id, "photo_analysis").db
      handler(db1) ==
        CASE event = <<"message", "/start">> ->
               start_cmd(db1, t, user_id, NoCode, member).db
          [] event = <<"message", "photo">> ->
               photo(check_limit(db1, t, user_id, "photo_analysis"))
          [] event = <<"message", "successful_payment">> ->
               handle_successful_payment(db1, t, user_id, "week_trial",
                                         <<"tg", user_id>>, "none", "true").db
          [] event = <<"message", "/admin_premium">> ->
               IF user_id \in ADMIN_IDS THEN admin_premium_cmd(db1, t, 1, 1) ELSE db1
          [] OTHER -> db1
  IN IF subscription_gate(is_allowed_update(event), member)
     THEN [handled |-> TRUE,
           db |-> handler(user_update_middleware(db, t, user_id, TRUE))]
     ELSE [handled |-> FALSE, db |-> db]

GateUpdate ==
  \E user_id \in Users, event \in GateEvents, status \in {"member", "left", "error"} :
    \E r \in {feed_update(DB, now, user_id, event, status)} :
       /\ total_uses(usage_limits) < MaxUses
       /\ Len(payments) + 2 <= MaxPayments
       /\ SetDB(r.db)
       /\ ret' = [op |-> "update", user |-> user_id, event |-> event,
                  status |-> status, handled |-> r.handled]
       /\ UNCHANGED <<now, uuid_seq, awaiting>>

NextGate ==
  \/ GateUpdate

SpecGate == Init /\ [][NextGate]_vars

(***************************************************************************)
(* SpecCreate: DatabaseManager.create_user called for new and for existing *)
(* users, with and without an inviter.                                     *)
(***************************************************************************)
CreateUser ==
  \E user_id \in Users : \E invited_by \in {NULL} \cup (DOMAIN users \ {user_id}) :
    /\ SetDB(create_user(DB, now, user_id, invited_by))
    /\ ret' = [op |-> "create_user", user |-> user_id, invited_by |-> invited_by]
    /\ UNCHANGED <<now, uuid_seq, awaiting>>

NextCreate ==
  \/ Tick
  \/ CreateUser
  \/ AdminPremium

SpecCreate == Init /\ [][NextCreate]_vars

(***************************************************************************)
(* SpecRenew: a user who buys one plan after another, days apart.          *)
(***************************************************************************)
SuccessfulPaymentOfPlan ==
  \E user_id \in PayUsers, transaction_id \in {<<"tg", 1>>, <<"tg", 2>>},
     subscription_type \in {"week_trial", "month"} :
    \E r \in {handle_successful_payment(
                 user_update_middleware(DB, now, user_id, TRUE), now, user_id,
                 subscription_type, transaction_id, "none", "true")} :
       /\ Len(payments) + 2 <= MaxRefundRows
       /\ SetDB(r.db)
       /\ ret' = [op |-> "successful_payment", user |-> user_id,
                  subscription_type |-> subscription_type,
                  transaction_id |-> transaction_id,
                  activated |-> r.activated, refund_calls |-> r.refund_calls]
       /\ UNCHANGED <<now, uuid_seq, awaiting>>

NextRenew ==
  \/ Tick
  \/ SuccessfulPaymentOfPlan

SpecRenew == Init /\ [][NextRenew]_vars

(***************************************************************************)
(* Properties.                                                             *)
(***************************************************************************)
\* the stored premium subscription of user u has run out before now
ExpiredPremium(u) ==
  /\ u \in DOMAIN users
  /\ users[u].subscription_type = "premium"
  /\ users[u].subscription_expires # NULL
  /\ users[u].subscription_expires < now

\* C1: a get_user_status call made for a user whose stored subscription is
\* 'premium' with subscription_expires earlier than now returns
\* subscription_type 'free' (under Spec)
C1_StatusAfterExpiryIsFree ==
  [][\A u \in QuotaUsers :
       (ExpiredPremium(u) /\ ret'.op = "get_user_status" /\ ret'.user = u)
         => ret'.status.subscription_type = "free"]_vars

\* the case of C1 as the code runs it: the status read after the expiry still
\* says 'premium', while the same call has reset the stored row to 'free'
C1_StaleStatusReturned ==
  /\ ret.op = "get_user_status"
  /\ ret.status.subscription_type = "premium"
  /\ ret.status.subscription_expires # NULL
  /\ ret.status.subscription_expires < now
  /\ users[ret.user].subscription_type = "free"

\* confirm_payment called in the current state for a completed row, by its
\* payment_id or by its Telegram charge id, finds no match and writes nothing
C2_NoOpOnCompleted ==
  \A i \in 1..Len(payments) :
    payments[i].status = "completed" =>
      LET by_id == confirm_payment(DB, now, payments[i].payment_id, NoCharge)
          by_charge == confirm_payment(DB, now, NoCharge,
                                       payments[i].telegram_payment_charge_id)
      IN /\ by_id.payment = NoPayment /\ by_id.db = DB
         /\ by_charge.payment = NoPayment /\ by_charge.db = DB

\* a 'succeeded' notification for payment_id: a pending row is completed and
\* counted once; for a row in any other status the handler reports failure
\* and payments, users and daily_stats stay as they were
C2_WebhookStep ==
  (ret'.op = "yookassa_webhook" /\ ret'.status = "succeeded") =>
    \A i \in 1..Len(payments) :
      payments[i].payment_id = ret'.payment_id =>
        IF payments[i].status = "pending"
        THEN /\ ret'.result
             /\ payments' = [payments EXCEPT ![i].status = "completed",
                                             ![i].completed_by = "confirm_payment"]
             /\ users' = users
        ELSE /\ ~ret'.result
             /\ payments' = payments
             /\ users' = users
             /\ daily_stats' = daily_stats

\* C2: confirm_payment is idempotent: called for a payment that is already
\* 'completed' it returns no match and changes no payments row, no user's
\* subscription and no daily_stats counter; only the confirmation of a
\* pending payment has an effect (under SpecPay)
C2_ConfirmPaymentIdempotent == [][C2_NoOpOnCompleted /\ C2_WebhookStep]_vars

\* a second 'succeeded' notification has arrived for a payment that
\* confirm_payment had completed, and was answered with no match
C2_SecondConfirmationRejected ==
  /\ ret.op = "yookassa_webhook"
  /\ ret.status = "succeeded"
  /\ ~ret.result
  /\ \E i \in 1..Len(payments) :
        /\ payments[i].payment_id = ret.payment_id
        /\ payments[i].status = "completed"
        /\ payments[i].completed_by = "confirm_payment"
        /\ payments[i].created_by = "create_payment"

\* no invited user holds two referrals rows
C3_OneRowPerInvited ==
  \A i, j \in 1..Len(referrals) :
    referrals[i].invited_id = referrals[j].invited_id => i = j

\* a /start of user u carrying the code of another existing user, made when
\* a referrals row already names u as the invited user
C3_LaterRedemption(u) ==
  /\ ret'.op = "start"
  /\ ret'.user = u
  /\ ret'.code # NoCode
  /\ get_user_by_referral_code(DB, ret'.code) \notin {NULL, u}
  /\ check_referral_bonus_used(DB, u)

\* C3: with allow_multiple_referral_bonuses = False a referral bonus is
\* granted at most once per invited user: once a referrals row exists for
\* the invited user, every later /start with a referral code is answered
\* 'already_used', adds no referrals row and changes neither the user's
\* referral_bonus_expires nor any other user's subscription (under Spec)
C3_ReferralBonusOnce ==
  [][/\ C3_OneRowPerInvited
     /\ \A u \in Users :
          C3_LaterRedemption(u) =>
            /\ ret'.outcome = "already_used"
            /\ referrals' = referrals
            /\ users'[u].referral_bonus_expires = users[u].referral_bonus_expires
            /\ \A v \in DOMAIN users \ {u} : users'[v] = users[v]]_vars

\* a user who holds a referral bonus has sent a referral link again and was
\* answered 'already_used'
C3_SecondRedemptionRejected ==
  /\ ret.op = "start"
  /\ ret.outcome = "already_used"
  /\ \E i \in 1..Len(referrals) :
        /\ referrals[i].invited_id = ret.user
        /\ referrals[i].inviter_id = get_user_by_referral_code(DB, ret.code)

\* the caps the stored row of user u stands for at the current time, written
\* as the decision table: premium while it runs, else the doubled free caps
\* while the referral bonus runs, else the free caps
ExpectedLimits(u) ==
  IF u \notin DOMAIN users THEN FREE_LIMITS
  ELSE IF /\ users[u].subscription_type = "premium"
          /\ users[u].subscription_expires # NULL
          /\ users[u].subscription_expires > now
  THEN PREMIUM_LIMITS
  ELSE IF /\ users[u].referral_bonus_expires # NULL
          /\ users[u].referral_bonus_expires > now
  THEN [k \in LimitKeys |-> 2 * FREE_LIMITS[k]]
  ELSE FREE_LIMITS

\* the uses of limit type k that user u has on record for the current day
UsedToday(u, k) ==
  LET rows == {r \in usage_limits : r.user_id = u /\ r.limit_type = k
                                     /\ r.period_start = now \div TicksPerDay}
  IN IF rows = {} THEN 0 ELSE (CHOOSE r \in rows : TRUE).usage_count

AtCap(u, k) == ExpectedLimits(u)[k] > 0 /\ UsedToday(u, k) = ExpectedLimits(u)[k]

\* while the day and the cap stay the same, a user at the cap stays at the
\* cap and every check_limit answers allowed = False
C4_BlockedForTheDay(u, k) ==
  (/\ AtCap(u, k)
   /\ now' \div TicksPerDay = now \div TicksPerDay
   /\ ExpectedLimits(u)'[k] = ExpectedLimits(u)[k])
  => /\ AtCap(u, k)'
     /\ (ret'.op = "check_limit" /\ ret'.user = u /\ ret'.limit_type = k)
          => (~ret'.res.allowed /\ ret'.res.used = ret'.res.limit)

\* when the day rolls over, check_limit in the new day answers used = 0 and
\* allowed = True for a positive cap, whatever was used the day before
C4_FreshAfterRollover(u, k) ==
  /\ (now' \div TicksPerDay # now \div TicksPerDay /\ ExpectedLimits(u)'[k] > 0)
       => LET res == check_limit(DB, now, u, k)'.res
          IN res.used = 0 /\ res.allowed
  /\ (/\ ret.op = "tick" /\ ret'.op = "check_limit"
      /\ ret'.user = u /\ ret'.limit_type = k /\ ret'.res.limit > 0)
       => (ret'.res.used = 0 /\ ret'.res.allowed)

\* C4: for a daily limit type with a positive cap and an unchanged tier,
\* once the uses of the current day equal the cap check_limit returns
\* allowed = False for the rest of that day, and the first check_limit after
\* the day rolls over returns used = 0 and allowed = True (under SpecQuota)
C4_DailyCapAndRollover ==
  [][\A u \in QuotaUsers, k \in QuotaLimitTypes :
       C4_BlockedForTheDay(u, k) /\ C4_FreshAfterRollover(u, k)]_vars

\* a check_limit right after midnight answers used = 0 and allowed, for a
\* user who had used up the same cap the day before
C4_AllowedAgainNextDay ==
  /\ ret.op = "check_limit"
  /\ ret.res.used = 0
  /\ ret.res.allowed
  /\ \E r \in usage_limits :
        /\ r.user_id = ret.user
        /\ r.limit_type = ret.limit_type
        /\ r.period_start + 1 = now \div TicksPerDay
        /\ r.usage_count = ret.res.limit

\* the first day of the period limit type k is counted over for user u:
\* the week's Monday for flux_generation and for the midjourney_generation
\* of a user whose stored subscription_type is not 'premium', else today
CurrentPeriodStart(u, k) ==
  LET today == now \div TicksPerDay
  IN IF \/ k = "flux_generation"
        \/ (k = "midjourney_generation" /\ users[u].subscription_type # "premium")
     THEN today - (today % 7)
     ELSE today

UsedInPeriod(u, k) ==
  LET rows == {r \in usage_limits : r.user_id = u /\ r.limit_type = k
                                     /\ r.period_start = CurrentPeriodStart(u, k)}
  IN IF rows = {} THEN 0 ELSE (CHOOSE r \in rows : TRUE).usage_count

\* C5: every check_limit returns remaining = max(0, cap - used) and
\* allowed = (used < cap), with used the counter of the current period and
\* cap the resolved limit; so allowed holds exactly when remaining > 0, and
\* an unknown limit type has cap 0 and is never allowed (under SpecUse)
C5_CheckLimitArithmetic ==
  ret.op = "check_limit" =>
    LET res == ret.res
        cap == IF ret.limit_type \in LimitKeys
               THEN ExpectedLimits(ret.user)[ret.limit_type] ELSE 0
    IN /\ res.limit = cap
       /\ res.used = UsedInPeriod(ret.user, ret.limit_type)
       /\ res.remaining = (IF cap - res.used > 0 THEN cap - res.used ELSE 0)
       /\ res.allowed = (res.used < cap)
       /\ res.allowed = (res.remaining > 0)
       /\ (ret.limit_type \notin LimitKeys => (res.limit = 0 /\ ~res.allowed))

\* check_limit has answered for a counter that stands exactly at its cap
C5_RefusedAtCap ==
  /\ ret.op = "check_limit"
  /\ ret.res.limit > 0
  /\ ret.res.used = ret.res.limit
  /\ ~ret.res.allowed
  /\ ret.res.remaining = 0

\* C6: get_user_limits resolves the caps as PREMIUM_LIMITS while the premium
\* subscription runs, otherwise as twice FREE_LIMITS for every limit type
\* while the referral bonus runs, otherwise as FREE_LIMITS; the doubling is
\* never applied to premium caps and a user without a row gets FREE_LIMITS
\* (under Spec)
C6_LimitsResolution ==
  /\ \A u \in Users \cup {3} : get_user_limits(DB, now, u).limits = ExpectedLimits(u)
  /\ ret.op = "get_user_status" =>
        \A k \in LimitKeys : ret.status.limits[k].limit = ExpectedLimits(ret.user)[k]

\* a status read has returned the plain premium caps to a user who holds a
\* running premium subscription and a running referral bonus at once
C6_PremiumWithBonus ==
  /\ ret.op = "get_user_status"
  /\ users[ret.user].subscription_type = "premium"
  /\ users[ret.user].subscription_expires > now
  /\ users[ret.user].referral_bonus_expires > now
  /\ \A k \in LimitKeys : ret.status.limits[k].limit = PREMIUM_LIMITS[k]

\* no two usage_limits rows share (user_id, limit_type, period_start)
C8_OneRowPerKey ==
  \A r1, r2 \in usage_limits :
    (/\ r1.user_id = r2.user_id
     /\ r1.limit_type = r2.limit_type
     /\ r1.period_start = r2.period_start) => r1 = r2

\* a use_limit that returns True writes one row: a first row with count 1,
\* or the row of the same key in place of the old one with the old count
\* plus one; a use_limit that returns False writes none
C8_UseLimitStep ==
  ret'.op = "use_limit" =>
    IF ~ret'.ok THEN usage_limits' = usage_limits
    ELSE \E new \in usage_limits' :
           LET old == {r \in usage_limits : /\ r.user_id = new.user_id
                                             /\ r.limit_type = new.limit_type
                                             /\ r.period_start = new.period_start}
           IN /\ new.user_id = ret'.user
              /\ new.limit_type = ret'.limit_type
              /\ usage_limits' = (usage_limits \ old) \cup {new}
              /\ IF old = {} THEN new.usage_count = 1
                 ELSE /\ Cardinality(usage_limits') = Cardinality(usage_limits)
                      /\ \A r \in old : new.usage_count = r.usage_count + 1

\* C8: in every reachable state there is at most one usage_limits row per
\* (user_id, limit_type, period_start), and use_limit on an existing row
\* replaces it with a row whose usage_count is the previous count plus one
\* instead of adding a second row (under SpecUse)
C8_UsageRowsUnique == [][C8_OneRowPerKey /\ C8_OneRowPerKey' /\ C8_UseLimitStep]_vars

\* use_limit has counted a second use on the row of an existing key
C8_RowReplaced ==
  /\ ret.op = "use_limit"
  /\ ret.ok
  /\ \E r \in usage_limits :
        /\ r.user_id = ret.user
        /\ r.limit_type = ret.limit_type
        /\ r.usage_count >= 2
        /\ \A r2 \in usage_limits :
              (r2.user_id = r.user_id /\ r2.limit_type = r.limit_type) => r2 = r

C9_CompletedOnlyByConfirm ==
  \A i \in 1..Len(payments) :
    /\ payments[i].created_as = "pending"
    /\ payments[i].status = "completed" => payments[i].completed_by = "confirm_payment"

\* C9, amended: a row inserted by create_payment is created 'pending' and is
\* 'completed' only after confirm_payment moved that row from 'pending' to
\* 'completed'; the only other rows are the 'sub' rows that set_subscription
\* inserts with status 'completed' and amount 0 when it is given a
\* transaction id, and no row is completed in any other way (under SpecPay)
C9_PaymentOrigins ==
  \A i \in 1..Len(payments) :
    LET p == payments[i]
    IN IF p.created_by = "create_payment"
       THEN /\ p.created_as = "pending"
            /\ p.payment_id[1] \in {"pay", "uuid"}
            /\ p.status = "completed" => p.completed_by = "confirm_payment"
            /\ p.completed_by \in {"none", "confirm_payment"}
            /\ p.status = "pending" => p.completed_by = "none"
       ELSE /\ p.created_by = "set_subscription"
            /\ p.created_as = "completed"
            /\ p.completed_by = "set_subscription"
            /\ p.payment_id[1] = "sub"
            /\ p.amount = 0
            /\ p.telegram_payment_charge_id # NoCharge

\* one Stars purchase has left both kinds of row: the create_payment row
\* that confirm_payment completed and the 'sub' row of set_subscription
C9_BothKindsOfCompletedRow ==
  \E i, j \in 1..Len(payments) :
    /\ payments[i].created_by = "create_payment"
    /\ payments[i].status = "completed"
    /\ payments[i].completed_by = "confirm_payment"
    /\ payments[j].created_by = "set_subscription"
    /\ payments[j].status = "completed"
    /\ payments[j].telegram_payment_charge_id = payments[i].telegram_payment_charge_id

\* C10: after the administrator confirms the cancellation of a transaction
\* recorded in the database, the paying user's subscription is 'free' with
\* subscription_expires NULL, whether refund_star_payment returned true,
\* returned false or raised (under SpecPay)
C10_CancelResetsSubscription ==
  (ret.op = "confirm_cancel_db" /\ ret.found /\ ret.user \in DOMAIN users) =>
    /\ users[ret.user].subscription_type = "free"
    /\ users[ret.user].subscription_expires = NULL

\* the case of C10 as the code runs it: the refund call raised, and the
\* paying user of the recorded transaction still holds a running premium
C10_PremiumKeptWhenRefundRaises ==
  /\ ret.op = "confirm_cancel_db"
  /\ ret.found
  /\ ret.refund_outcome = "raise"
  /\ users[ret.user].subscription_type = "premium"
  /\ users[ret.user].subscription_expires > now
  /\ \E i \in 1..Len(payments) :
        payments[i].user_id = ret.user /\ payments[i].status = "completed"

\* a step in which the suspended handle_text h is resumed with the answer
\* of the model and calls use_limit
C11_Resumed(h) ==
  /\ h \in awaiting
  /\ awaiting' = awaiting \ {h}
  /\ ret'.op = "text_use"
  /\ ret'.ai_ok

\* use_limit decides on the counter as it is when the handler is resumed:
\* below the cap it returns True and raises the counter by one, to at most
\* the cap; at or above the cap it returns False and writes nothing
C11_UseLimitStep(h) ==
  C11_Resumed(h) =>
    LET used == UsedToday(h.user_id, h.limit_type)
        cap == ExpectedLimits(h.user_id)[h.limit_type]
    IN IF used < cap
       THEN /\ ret'.ok
            /\ UsedToday(h.user_id, h.limit_type)' = used + 1
            /\ used + 1 <= cap
       ELSE /\ ~ret'.ok
            /\ usage_limits' = usage_limits

C12_Owners(code) == {v \in DOMAIN users : users[v].referral_code = code}

\* the outcome of a /start of user u with the code, as the first check that
\* fails on the stored tables
C12_Expected(u, code) ==
  IF C12_Owners(code) = {} THEN "invalid_link"
  ELSE IF u \in C12_Owners(code) THEN "own_link"
  ELSE IF \E i \in 1..Len(referrals) : referrals[i].invited_id = u THEN "already_used"
  ELSE IF \E r \in usage_limits :
            r.user_id = u /\ r.limit_type # "bot_activity_marker"
  THEN "too_active"
  ELSE IF u \in DOMAIN users /\ now - users[u].created_at > timedelta_hours_24
  THEN "too_old"
  ELSE "bonus_activated"

\* a /start of user u carrying a code; a sender who is not registered yet
\* cannot send the code that create_user will only generate for them
C12_StartWithCode(u, code) ==
  /\ ret'.op = "start"
  /\ ret'.user = u
  /\ ret'.code = code
  /\ code # NoCode
  /\ (u \in DOMAIN users \/ code # generate_referral_code(u))

\* the bonus as applied for the invited user u and the inviter v
C12_BonusApplied(u, v) ==
  /\ referrals' = Append(referrals, [inviter_id |-> v, invited_id |-> u,
                                     bonus_given |-> TRUE])
  /\ users'[u].referral_bonus_expires = now + timedelta_days(1)
  /\ users'[v].subscription_type = "premium"
  /\ users'[v].subscription_expires > now

\* no part of the bonus is applied
C12_NoBonus(u) ==
  /\ referrals' = referrals
  /\ users'[u].referral_bonus_expires =
       IF u \in DOMAIN users THEN users[u].referral_bonus_expires ELSE NULL
  /\ \A v \in DOMAIN users \ {u} : users'[v] = users[v]

C13_NoSelfRow ==
  \A i \in 1..Len(referrals) : referrals[i].inviter_id # referrals[i].invited_id

\* a /start of the registered user u carrying u's own referral code
C13_OwnCodeStart(u) ==
  /\ ret'.op = "start"
  /\ ret'.user = u
  /\ u \in DOMAIN users
  /\ ret'.code # NoCode
  /\ users[u].referral_code = ret'.code

\* C13 as claimed: no referrals row has inviter_id = invited_id, and a
\* /start with the sender's own code leaves the sender's
\* referral_bonus_expires and subscription as they were
C13_SelfReferralChangesNothing ==
  [][/\ C13_NoSelfRow'
     /\ \A u \in Users :
          C13_OwnCodeStart(u) =>
            /\ users'[u].referral_bonus_expires = users[u].referral_bonus_expires
            /\ users'[u].subscription_type = users[u].subscription_type
            /\ users'[u].subscription_expires = users[u].subscription_expires]_vars

\* the stored premium subscription of user u is due for the reset that
\* get_user_limits performs
C13_DueForReset(u) ==
  /\ users[u].subscription_type = "premium"
  /\ users[u].subscription_expires # NULL
  /\ users[u].subscription_expires <= now

\* C13 (amended): no referrals row has inviter_id = invited_id, and a /start
\* with the sender's own code is answered own_link, adds no referrals row
\* and leaves the sender's referral_bonus_expires as it was; the sender's
\* subscription stays as it was too, unless it is a premium subscription
\* that has already run out, which the status read at the end of /start
\* resets to free (under SpecStart)
C13_SelfReferralGrantsNothing ==
  [][/\ C13_NoSelfRow'
     /\ \A u \in Users :
          C13_OwnCodeStart(u) =>
            /\ ret'.outcome = "own_link"
            /\ referrals' = referrals
            /\ users'[u].referral_bonus_expires = users[u].referral_bonus_expires
            /\ \/ /\ users'[u].subscription_type = users[u].subscription_type
                  /\ users'[u].subscription_expires = users[u].subscription_expires
               \/ /\ C13_DueForReset(u)
                  /\ users'[u].subscription_type = "free"
                  /\ users'[u].subscription_expires = NULL]_vars

\* an inviter whose bonus day of premium had run out sent their own link and
\* was answered own_link; the status read of that /start reset them to free
C13_OwnLinkAfterExpiry ==
  /\ ret.op = "start"
  /\ ret.outcome = "own_link"
  /\ users[ret.user].subscription_type = "free"
  /\ \E i \in 1..Len(referrals) : referrals[i].inviter_id = ret.user
  /\ C13_NoSelfRow

(***************************************************************************)
(* C14                                                                     *)
(***************************************************************************)
\* the bucket the claim gives limit type k
C14_Bucket(k, premium) ==
  CASE k = "flux_generation" -> "weekly"
    [] k = "midjourney_generation" -> IF premium THEN "daily" ELSE "weekly"
    [] OTHER -> "daily"

\* first and last day of the current bucket: today, or the Monday and the
\* Sunday of the current week
C14_Start(bucket) ==
  LET today == now \div TicksPerDay
  IN IF bucket = "daily" THEN today ELSE today - (today % DaysPerWeek)

C14_End(bucket) ==
  IF bucket = "daily" THEN C14_Start(bucket) ELSE C14_Start(bucket) + DaysPerWeek - 1

C14_Count(rows, u, k, start) ==
  LET S == {r \in rows : r.user_id = u /\ r.limit_type = k /\ r.period_start = start}
  IN IF S = {} THEN 0 ELSE (CHOOSE r \in S : TRUE).usage_count

\* a premium subscriber is a user whose users row reads 'premium' once the
\* call has reset a subscription that ran out
C14_Step(u, k) ==
  LET bucket == C14_Bucket(k, users'[u].subscription_type = "premium")
      start == C14_Start(bucket)
  IN /\ (ret'.op = "check_limit" /\ ret'.user = u /\ ret'.limit_type = k)
          => /\ ret'.res.period_type = bucket
             /\ ret'.res.used = C14_Count(usage_limits, u, k, start)
     /\ (ret'.op = "use_limit" /\ ret'.user = u /\ ret'.limit_type = k /\ ret'.ok)
          => \E r \in usage_limits' :
                /\ r.user_id = u /\ r.limit_type = k
                /\ r.period_type = bucket
                /\ r.period_start = start
                /\ r.period_end = C14_End(bucket)
                /\ (bucket = "weekly" => r.period_start % DaysPerWeek = 0)
                /\ r.usage_count = C14_Count(usage_limits, u, k, start) + 1
                /\ usage_limits' \ {r} \subseteq usage_limits

C15_ProcessingFails(u) ==
  \/ ret'.fault \in {"payload", "save", "confirm", "activate"}
  \/ /\ ret'.fault \in {"none", "answer"}
     /\ \E i \in 1..Len(payments) :
           payments[i].payment_id = <<"pay", u, now \div SubSec>>

C15_NotActivated(u) ==
  u \in DOMAIN users' =>
    IF u \in DOMAIN users
    THEN /\ users'[u].subscription_type = users[u].subscription_type
         /\ users'[u].subscription_expires = users[u].subscription_expires
    ELSE users'[u].subscription_type = "free"

\* C15: for every successful_payment event whose processing fails,
\* handle_successful_payment calls attempt_refund exactly once, and when the
\* provider refund returns False or raises every administrator of ADMIN_IDS
\* is sent a notification; the failed event activates nothing
\* (under SpecRefund)
C15_FailedPaymentRefundedOnce ==
  [][\A u \in PayUsers :
       (ret'.op = "successful_payment" /\ ret'.user = u /\ C15_ProcessingFails(u))
         => /\ ret'.refund_calls = 1
            /\ (ret'.refund_outcome # "true" => ret'.admins_notified = ADMIN_IDS)
            /\ ~ret'.activated
            /\ C15_NotActivated(u)]_vars

\* a second event of the same second could not be saved, its refund raised
\* and the administrators were told
C15_DuplicateRefundRaised ==
  /\ ret.op = "successful_payment"
  /\ ret.fault = "none"
  /\ ~ret.activated
  /\ ret.refund_calls = 1
  /\ ret.refund_outcome = "raise"
  /\ ret.admins_notified = ADMIN_IDS
  /\ Len(payments) > 0

(***************************************************************************)
(* C16                                                                     *)
(***************************************************************************)
\* the users that own a payments row with payment_id pid
C16_Payers(pid) ==
  {payments[i].user_id : i \in {j \in 1..Len(payments) : payments[j].payment_id = pid}}

C16_PremiumRunning(u) ==
  /\ u \in DOMAIN users
  /\ users[u].subscription_type = "premium"
  /\ users[u].subscription_expires # NULL
  /\ users[u].subscription_expires > now

\* C16: confirm_payment confirms the payment and activates the subscription:
\* after it has succeeded for a pending payment through the YooKassa webhook
\* (status 'succeeded'), the paying user's subscription_type is 'premium'
\* with a subscription_expires in the future (under SpecPay)
C16_ConfirmActivatesSubscription ==
  (ret.op = "yookassa_webhook" /\ ret.status = "succeeded" /\ ret.result)
    => \A u \in C16_Payers(ret.payment_id) : C16_PremiumRunning(u)

\* the webhook has confirmed a payment, its row is 'completed', and the user
\* who paid is still a free user
C16_PaidWithoutPremium ==
  /\ ret.op = "yookassa_webhook" /\ ret.status = "succeeded" /\ ret.result
  /\ \E i \in 1..Len(payments) :
        /\ payments[i].payment_id = ret.payment_id
        /\ payments[i].status = "completed"
        /\ payments[i].completed_by = "confirm_payment"
        /\ payments[i].user_id \in DOMAIN users
        /\ users[payments[i].user_id].subscription_type = "free"

(***************************************************************************)
(* C17                                                                     *)
(***************************************************************************)
\* the step cancels a payment that was 'completed'
C17_CancelsCompleted ==
  \E i \in 1..Len(payments) :
     /\ payments[i].status = "completed"
     /\ payments'[i].status = "cancelled"

C17_NothingChanged ==
  /\ payments' = payments
  /\ \A u \in DOMAIN users :
        /\ users'[u].subscription_type = users[u].subscription_type
        /\ users'[u].subscription_expires = users[u].subscription_expires

\* C17: cancel_subscription takes effect only when a payment with that
\* transaction id exists in status 'completed'; when the transaction is not
\* found or is already cancelled it leaves every payments row and every
\* user's subscription unchanged, so a second cancellation of a transaction
\* never resets a subscription obtained afterwards (under SpecPay, over the
\* confirm_cancel_db callback that calls it)
C17_CancelOnlyCompleted ==
  [][ret'.op = "confirm_cancel_db" => (C17_CancelsCompleted \/ C17_NothingChanged)]_vars

\* an administrator has granted premium after every payment of the user was
\* cancelled, and the cancellation of the old transaction is confirmed again
C17_PremiumAfterCancellation ==
  /\ ret.op = "admin_premium"
  /\ Len(payments) > 0
  /\ \A i \in 1..Len(payments) : payments[i].status = "cancelled"
  /\ \E u \in PayUsers :
        /\ u \in DOMAIN users
        /\ users[u].subscription_type = "premium"
        /\ ENABLED (ConfirmCancelDb /\ users'[u].subscription_type = "free")

(***************************************************************************)
(* C18                                                                     *)
(***************************************************************************)
C18_ActivePremium(v) ==
  /\ users[v].subscription_type = "premium"
  /\ users[v].subscription_expires # NULL
  /\ users[v].subscription_expires > now

\* the referral of user u is granted in this step and v is the inviter
C18_Granted(u, v) ==
  /\ ret'.op = "start" /\ ret'.user = u /\ ret'.outcome = "bonus_activated"
  /\ v # u /\ v \in DOMAIN users
  /\ ret'.code = users[v].referral_code

C18_InviterDay(v) ==
  /\ users[v].subscription_type = "free"
       => /\ users'[v].subscription_type = "premium"
          /\ users'[v].subscription_expires = now + TicksPerDay
  /\ C18_ActivePremium(v)
       => users'[v].subscription_expires = users[v].subscription_expires + TicksPerDay
  /\ users[v].subscription_type = "premium"
       => users'[v].subscription_type = "premium"
  /\ users[v].subscription_expires # NULL
       => /\ users'[v].subscription_expires # NULL
          /\ users'[v].subscription_expires >= users[v].subscription_expires

\* C18: each granted referral gives the inviter one day of premium: a free
\* inviter becomes premium with subscription_expires = now + 1 day, an
\* inviter whose premium is still active has subscription_expires moved
\* exactly one day later than it was, and a grant never downgrades the
\* inviter or moves subscription_expires earlier (under SpecInvite)
C18_InviterGetsOneDay ==
  [][\A u \in Users, v \in Users : C18_Granted(u, v) => C18_InviterDay(v)]_vars

\* an inviter's premium has less than a day left, and the link can be
\* redeemed with the inviter gaining less than a day
C18_LessThanADayGained ==
  \E v \in Users :
    /\ v \in DOMAIN users
    /\ C18_ActivePremium(v)
    /\ users[v].subscription_expires < now + TicksPerDay
    /\ ENABLED (/\ StartCmd
                /\ ret'.outcome = "bonus_activated"
                /\ users'[v].subscription_expires
                     < users[v].subscription_expires + TicksPerDay)

(***************************************************************************)
(* C19                                                                     *)
(***************************************************************************)
\* the counter of the key (user, limit type, first day of the period)
C19_Counter(rows, u, k, start) ==
  LET S == {r \in rows : r.user_id = u /\ r.limit_type = k /\ r.period_start = start}
  IN IF S = {} THEN 0 ELSE (CHOOSE r \in S : TRUE).usage_count

C19_Keys(rows) == {<<r.user_id, r.limit_type, r.period_start>> : r \in rows}

\* the usage counters of daily_stats
C19_UsageStats(stats, d) ==
  IF d \in DOMAIN stats
  THEN <<stats[d].text_requests, stats[d].image_analysis, stats[d].image_generation>>
  ELSE <<0, 0, 0>>

C19_Step(u, k) ==
  LET start == CurrentPeriodStart(u, k)'
      cap == ExpectedLimits(u)'[k]
      before == C19_Counter(usage_limits, u, k, start)
  IN (ret'.op = "use_limit" /\ ret'.user = u /\ ret'.limit_type = k)
       => /\ ret'.ok = (before < cap)
          /\ ret'.ok => C19_Counter(usage_limits', u, k, start) = before + 1
          /\ ~ret'.ok =>
               /\ usage_limits' = usage_limits
               /\ \A d \in DOMAIN daily_stats \cup DOMAIN daily_stats' :
                     C19_UsageStats(daily_stats', d) = C19_UsageStats(daily_stats, d)
          /\ \A key \in C19_Keys(usage_limits \cup usage_limits') :
                key # <<u, k, start>>
                  => {r \in usage_limits' : <<r.user_id, r.limit_type, r.period_start>> = key}
                       = {r \in usage_limits : <<r.user_id, r.limit_type, r.period_start>> = key}

\* C19: use_limit re-checks the limit and then either returns True after
\* raising the counter of (user, limit type, current period) by exactly 1,
\* or returns False and leaves every usage counter and every daily_stats
\* usage counter unchanged; it never changes a counter of another user,
\* limit type or period (under SpecFrame)
C19_UseLimitFrame ==
  [][\A u \in Users, k \in FrameLimitTypes : C19_Step(u, k)]_vars

\* a use has been counted for one user while the other user, another limit
\* type of the same user and an earlier period of the same limit type all
\* hold counters of their own
C19_CountedBesideOthers ==
  /\ ret.op = "use_limit" /\ ret.ok
  /\ \E r \in usage_limits :
        /\ r.user_id = ret.user /\ r.limit_type = ret.limit_type
        /\ r.period_start = now \div TicksPerDay
        /\ \E r1, r2, r3 \in usage_limits :
              /\ r1.user_id # r.user_id
              /\ r2.user_id = r.user_id /\ r2.limit_type # r.limit_type
              /\ r3.user_id = r.user_id /\ r3.limit_type = r.limit_type
              /\ r3.period_start < r.period_start

(***************************************************************************)
(* C20                                                                     *)
(***************************************************************************)
C20_ActivePremium(u) ==
  /\ u \in DOMAIN users
  /\ users[u].subscription_type = "premium"
  /\ users[u].subscription_expires # NULL
  /\ users[u].subscription_expires > now

\* all uses of limit type k that user u has on record, over every period
C20_Uses(rows, u, k) ==
  sum_usage_count({r \in rows : r.user_id = u /\ r.limit_type = k})

C20_Step(u, k) ==
  ~C20_ActivePremium(u)
    => /\ C20_Uses(usage_limits', u, k) = C20_Uses(usage_limits, u, k)
       /\ get_user_limits(DB, now, u).limits[k] = 0
       /\ (ret'.op = "use_limit" /\ ret'.user = u /\ ret'.limit_type = k)
            => ~ret'.ok

\* C20: a user without an active premium subscription can never raise the
\* premium_text_requests, voice_processing or document_processing counters:
\* the cap is 0 for these types in every state, also while a referral bonus
\* doubles the free caps, so use_limit always returns False for them
\* (under SpecClosed)
C20_ClosedToFreeUsers ==
  [][\A u \in Users, k \in ClosedLimitTypes : C20_Step(u, k)]_vars

\* a free user has been refused a voice message while the referral bonus
\* doubles their other caps
C20_RefusedDuringBonus ==
  /\ ret.op = "use_limit" /\ ret.limit_type = "voice_processing" /\ ~ret.ok
  /\ ret.user \in DOMAIN users
  /\ users[ret.user].subscription_type = "free"
  /\ users[ret.user].referral_bonus_expires # NULL
  /\ users[ret.user].referral_bonus_expires > now
  /\ get_user_limits(DB, now, ret.user).limits["photo_analysis"]
       = 2 * FREE_LIMITS["photo_analysis"]

(***************************************************************************)
(* C21                                                                     *)
(***************************************************************************)
\* the updates the claim leaves open to everybody
C21_Exempt ==
  {<<"message", "/start">>, <<"message", "/referral">>,
   <<"callback_query", "check_subscription">>}

\* C21: for a message or callback query of a user who is not a member of the
\* required channel, or whose membership check fails with an error, no
\* handler runs and no quota, subscription or payment state changes, except
\* for /start, /referral and the callback check_subscription (under SpecGate)
C21_GateBlocksNonMembers ==
  [][(/\ ret'.op = "update"
      /\ ret'.status \in {"left", "error"}
      /\ ret'.event \notin C21_Exempt)
       => /\ ~ret'.handled
          /\ UNCHANGED <<users, usage_limits, referrals, payments, daily_stats>>]_vars

\* the successful_payment message of a registered user whose membership
\* check raised was dropped, and nothing was written for it
C21_PaymentOfNonMemberDropped ==
  /\ ret.op = "update"
  /\ ret.event = <<"message", "successful_payment">>
  /\ ret.status = "error"
  /\ ~ret.handled
  /\ ret.user \in DOMAIN users
  /\ \A i \in 1..Len(payments) : payments[i].user_id # ret.user

(***************************************************************************)
(* C22                                                                     *)
(***************************************************************************)
\* C22: create_user for a user_id that already exists, with or without
\* invited_by, is a no-op: the users table, the referrals table, the
\* inviter's subscription and the new_users daily counter are unchanged
\* (under SpecCreate)
C22_CreateExistingIsNoOp ==
  [][(ret'.op = "create_user" /\ ret'.user \in DOMAIN users)
       => UNCHANGED <<users, referrals, daily_stats, usage_limits, payments>>]_vars

\* create_user was called with an inviter for a user registered without one:
\* the row still has no inviter, no referral was written and the inviter is
\* still free
C22_SecondCreateWithInviter ==
  /\ ret.op = "create_user"
  /\ ret.invited_by # NULL
  /\ users[ret.user].invited_by = NULL
  /\ users[ret.user].referral_bonus_expires = NULL
  /\ referrals = <<>>
  /\ users[ret.invited_by].subscription_type = "free"
  /\ users[ret.user].created_at < CURRENT_TIMESTAMP(now)

(***************************************************************************)
(* C23                                                                     *)
(***************************************************************************)
\* the user holds a premium subscription that has not run out
C23_ActivePremium(u) ==
  /\ u \in DOMAIN users
  /\ users[u].subscription_type = "premium"
  /\ users[u].subscription_expires # NULL
  /\ users[u].subscription_expires > now

\* C23: a paid purchase never shortens a subscription: after
\* handle_successful_payment activates a plan for a user who already holds
\* an active premium subscription, subscription_expires is not earlier than
\* it was before the purchase (under SpecRenew)
C23_PurchaseNeverShortens ==
  [][(/\ ret'.op = "successful_payment"
      /\ ret'.activated
      /\ C23_ActivePremium(ret'.user))
       => users'[ret'.user].subscription_expires
            >= users[ret'.user].subscription_expires]_vars

\* a month is running and the purchase of the trial week, processed without
\* a fault, would move its end to an earlier time
C23_WeekBoughtDuringMonth ==
  /\ C23_ActivePremium(1)
  /\ \E i \in 1..Len(payments) :
        /\ payments[i].user_id = 1
        /\ payments[i].subscription_type = "month"
        /\ payments[i].status = "completed"
  /\ ENABLED (/\ SuccessfulPaymentOfPlan
              /\ ret'.subscription_type = "week_trial"
              /\ ret'.activated
              /\ users'[1].subscription_type = "premium"
              /\ users'[1].subscription_expires < users[1].subscription_expires)

(***************************************************************************)
(* C24                                                                     *)
(***************************************************************************)
\* C24: an automatic refund and an activated subscription never coexist for
\* the same payment: in every run of handle_successful_payment,
\* attempt_refund is called only if the premium subscription paid for by
\* that transaction was not activated (under SpecRefund)
C24_RefundOnlyWithoutActivation ==
  ret.op = "successful_payment" /\ ret.refund_calls > 0 => ~ret.activated

\* the stars went back to the user, every row of the charge is 'refunded',
\* and the premium bought with it is running
C24_RefundedAndPremium ==
  /\ ret.op = "successful_payment"
  /\ ret.activated
  /\ ret.refund_calls = 1
  /\ ret.refund_outcome = "true"
  /\ ret.user \in DOMAIN users
  /\ users[ret.user].subscription_type = "premium"
  /\ users[ret.user].subscription_expires > now
  /\ Len(payments) > 0
  /\ \A i \in 1..Len(payments) : payments[i].status = "refunded"

(***************************************************************************)
(* C25                                                                     *)
(***************************************************************************)
\* what a read of the given bucket reports for midjourney_generation: the
\* usage_count of the row whose period_start is today (daily) or the Monday
\* of this week (weekly)
C25_Reported(rows, u, bucket) ==
  LET today == now \div TicksPerDay
      start == IF bucket = "daily" THEN today ELSE today - (today % DaysPerWeek)
      S == {r \in rows : /\ r.user_id = u
                         /\ r.limit_type = "midjourney_generation"
                         /\ r.period_start = start}
  IN IF S = {} THEN 0 ELSE (CHOOSE r \in S : TRUE).usage_count

\* C25: the daily and the weekly midjourney_generation counters are
\* independent: a use recorded while the user is counted in one bucket
\* (weekly as free, daily as premium) never changes what is reported as
\* usage of the other bucket, on any day of the week including Monday
\* (under SpecPeriod)
C25_BucketsIndependent ==
  [][\A u \in QuotaUsers :
       (/\ ret'.op = "use_limit" /\ ret'.user = u /\ ret'.ok
        /\ ret'.limit_type = "midjourney_generation")
         => LET other == IF users'[u].subscription_type = "premium"
                         THEN "weekly" ELSE "daily"
            IN C25_Reported(usage_limits', u, other)
                 = C25_Reported(usage_limits, u, other)]_vars

\* on a Monday a premium subscriber is told that one generation of the day
\* is used, and the only row behind it was written for the week while the
\* user was free
C25_WeeklyUseReportedAsDaily ==
  /\ ret.op = "check_limit"
  /\ ret.limit_type = "midjourney_generation"
  /\ ret.res.period_type = "daily"
  /\ ret.res.used = 1
  /\ (now \div TicksPerDay) % DaysPerWeek = 0
  /\ users[ret.user].subscription_type = "premium"
  /\ users[ret.user].subscription_expires # NULL
  /\ users[ret.user].subscription_expires > now
  /\ \E r \in usage_limits :
        /\ r.user_id = ret.user /\ r.limit_type = "midjourney_generation"
        /\ r.period_start = now \div TicksPerDay
        /\ r.period_type = "weekly"
        /\ r.usage_count = 1

(***************************************************************************)
(* C26                                                                     *)
(***************************************************************************)
\* C26: for every limit type get_user_status reports in
\* status['limits'][limit_type] the same used, limit, remaining, allowed and
\* period_type as check_limit returns for that user and limit type, also on
\* the first read after a premium subscription has expired (under Spec)
C26_StatusAgreesWithCheckLimit ==
  ret.op = "get_user_status"
    => \A k \in LimitKeys :
          ret.status.limits[k] = check_limit(DB, now, ret.user, k).res

\* the first status read after the premium ran out: the status still says
\* premium and counts midjourney_generation by the day, while the row is
\* free again and check_limit counts it by the week
C26_StaleBucketAfterExpiry ==
  /\ ret.op = "get_user_status"
  /\ ret.status.subscription_type = "premium"
  /\ ret.status.subscription_expires # NULL
  /\ ret.status.subscription_expires <= now
  /\ users[ret.user].subscription_type = "free"
  /\ ret.status.limits["midjourney_generation"].period_type = "daily"
  /\ ret.status.limits["midjourney_generation"].limit
       = FREE_LIMITS["midjourney_generation"]
  /\ check_limit(DB, now, ret.user, "midjourney_generation").res.period_type = "weekly"

(***************************************************************************)
(* C27                                                                     *)
(***************************************************************************)
\* C27: tier and caps never disagree: after any get_user_limits call the
\* user's stored subscription_type is 'premium' exactly when PREMIUM_LIMITS
\* were returned; no reachable state has a user reported as premium while
\* held to the free-tier caps (under Spec)
C27_TierAndCapsAgree ==
  \A u \in DOMAIN users :
    \A r \in {get_user_limits(DB, now, u)} :
       r.db.users[u].subscription_type = "premium" <=> r.limits = PREMIUM_LIMITS

\* after /admin_premium with 0 days the status read names the user premium,
\* which opens the premium models, and gives the caps of the free tier,
\* which allow no premium text request
C27_PremiumHeldToFreeCaps ==
  /\ ret.op = "get_user_status"
  /\ ret.status.subscription_type = "premium"
  /\ users[ret.user].subscription_type = "premium"
  /\ users[ret.user].subscription_expires = NULL
  /\ \A k \in LimitKeys : ret.status.limits[k].limit = FREE_LIMITS[k]
  /\ ~ret.status.limits["premium_text_requests"].allowed

====
